---- MODULE Spec2Model ----
(***************************************************************************)
(* PomoTeam (src/app.py): the focus-session lifecycle and the task ledger  *)
(* it writes to.  The database tables are the state; every route handler   *)
(* is an action.  Form fields arrive as text (sequences of one-character   *)
(* strings) or are absent, and are converted as the handlers convert them. *)
(* The database is the default one of line 15 (SQLite): a new row takes    *)
(* the id max(id)+1 and foreign keys are not enforced, so a FocusSession   *)
(* may keep the id of a task that no longer exists.                        *)
(***************************************************************************)
EXTENDS Integers, Sequences, FiniteSets, TLC

VARIABLES users, projects, tasks, sessions, resp, reqs

vars == <<users, projects, tasks, sessions, resp, reqs>>

(***************************************************************************)
(* Bounds of the model.                                                    *)
(***************************************************************************)
MaxTasks == 1
MaxSessions == 1
MaxPomos == 2
ClockTasks == 2
ClockSessions == 1
StartSessions == 2
MaxInflight == 2

(***************************************************************************)
(* Nullable values: None is Python's None / SQL NULL, Some(x) a value.     *)
(***************************************************************************)
None == <<>>
Some(x) == <<x>>
Val(o) == o[1]

Max(a, b) == IF a >= b THEN a ELSE b


(***************************************************************************)
(* Form fields.  request.form.get(k) is None when the field is absent and  *)
(* otherwise its text, a sequence of one-character strings.                *)
(***************************************************************************)
Digits == <<"0", "1", "2", "3", "4", "5", "6", "7", "8", "9">>

IsDigit(c) == \E i \in 1..Len(Digits) : Digits[i] = c

DigitValue(c) == (CHOOSE i \in 1..Len(Digits) : Digits[i] = c) - 1

RECURSIVE DigitsValue(_)
DigitsValue(ds) ==
    IF ds = <<>> THEN 0
    ELSE 10 * DigitsValue(SubSeq(ds, 1, Len(ds) - 1)) + DigitValue(ds[Len(ds)])

\* str.strip(): leading and trailing blanks removed.
RECURSIVE Strip(_)
Strip(text) ==
    IF text = <<>> THEN text
    ELSE IF Head(text) = " " THEN Strip(Tail(text))
    ELSE IF text[Len(text)] = " " THEN Strip(SubSeq(text, 1, Len(text) - 1))
    ELSE text

\* Python's int(text): blanks stripped, an optional sign, then decimal digits;
\* anything else raises ValueError, here None.
ParseInt(text) ==
    LET t == Strip(text)
        signed == t # <<>> /\ Head(t) \in {"-", "+"}
        body == IF signed THEN Tail(t) ELSE t
    IN  IF body = <<>> \/ \E i \in 1..Len(body) : ~IsDigit(body[i])
        THEN None
        ELSE Some(IF signed /\ Head(t) = "-" THEN 0 - DigitsValue(body)
                  ELSE DigitsValue(body))

\* str(n) for n >= 0: the decimal text a client sends for an id.
RECURSIVE ToText(_)
ToText(n) ==
    IF n < 10 THEN <<Digits[n + 1]>>
    ELSE ToText(n \div 10) \o <<Digits[(n % 10) + 1]>>

\* Python truthiness of request.form.get(k): None and "" are falsy.
Truthy(field) == field # None /\ Val(field) # <<>>


(***************************************************************************)
(* Tables.  users and sessions are never deleted from, so they are         *)
(* sequences indexed by id; tasks is a function on the ids now in use.     *)
(***************************************************************************)
MainTeam == 1

DefaultPlanned == 25

SecondsPerMinute == 60

TrueText == <<"t", "r", "u", "e">>

NewUser(email, count) ==
    [email |-> email, role |-> IF count = 0 THEN "leader" ELSE "member",
     team_id |-> MainTeam]

NewTask(assignee_id, project_id, estimate_pomos) ==
    [assignee_id |-> assignee_id, project_id |-> project_id, status |-> "todo",
     estimate_pomos |-> estimate_pomos, actual_pomos |-> 0]

\* Lines 62-63 with the planned length as the default of actual_minutes.
NewFocusSessionPlanned(user_id, task_id, project_id, start_time, planned_minutes) ==
    [user_id |-> user_id, task_id |-> task_id, project_id |-> project_id,
     start_time |-> start_time, end_time |-> None,
     planned_minutes |-> planned_minutes, actual_minutes |-> planned_minutes,
     was_completed |-> FALSE]

NewFocusSession(user_id, task_id, project_id, start_time, planned_minutes) ==
    [user_id |-> user_id, task_id |-> task_id, project_id |-> project_id,
     start_time |-> start_time, end_time |-> None,
     planned_minutes |-> planned_minutes, actual_minutes |-> 0,
     was_completed |-> FALSE]

\* The id the database gives a new row: one more than the largest in use.
NewId(ids) ==
    IF ids = {} THEN 1 ELSE (CHOOSE m \in ids : \A i \in ids : i <= m) + 1

\* current_user(): the user of the session cookie; uid 0 is no cookie.
LoggedIn(uid) == uid \in 1..Len(users)

\* The guard shared by update_task, delete_task, mark_done and restore_task.
MayTouchTask(me, t) == users[me].role = "leader" \/ t.assignee_id = me

Reply(op, code, caller, id) ==
    [op |-> op, code |-> code, caller |-> caller, id |-> id]

Init ==
    /\ users = <<>>
    /\ projects = <<>>
    /\ tasks = <<>>
    /\ sessions = <<>>
    /\ resp = Reply("none", "none", 0, 0)
    /\ reqs = <<>>

(***************************************************************************)
(* register (POST): the first user becomes the leader, everyone joins the  *)
(* one team.                                                               *)
(***************************************************************************)
Register(email) ==
    /\ UNCHANGED <<projects, tasks, sessions, reqs>>
    /\ IF \E u \in 1..Len(users) : users[u].email = email
       THEN /\ resp' = Reply("register", "taken", 0, 0)
            /\ UNCHANGED users
       ELSE /\ users' = Append(users, NewUser(email, Len(users)))
            /\ resp' = Reply("register", "redirect", Len(users) + 1, Len(users) + 1)

(***************************************************************************)
(* create_task                                                             *)
(***************************************************************************)
CreateTaskCode(me, titleForm, assigneeForm, projectForm, estimateForm) ==
    IF ~LoggedIn(me) THEN "login"
    ELSE IF titleForm = None THEN "bad_request"
    ELSE IF Strip(Val(titleForm)) = <<>> THEN "redirect"
    ELSE IF assigneeForm # None /\ ParseInt(Val(assigneeForm)) = None THEN "error"
    ELSE IF Truthy(projectForm) /\ ParseInt(Val(projectForm)) = None THEN "error"
    ELSE IF Truthy(estimateForm) /\ ParseInt(Val(estimateForm)) = None THEN "error"
    ELSE "created"

CreateTask(me, titleForm, assigneeForm, projectForm, estimateForm) ==
    LET code == CreateTaskCode(me, titleForm, assigneeForm, projectForm, estimateForm)
        id == NewId(DOMAIN tasks)
        asked == IF assigneeForm = None THEN me ELSE Val(ParseInt(Val(assigneeForm)))
        assignee_id == IF users[me].role # "leader" THEN me ELSE asked
        project_id == IF Truthy(projectForm) THEN ParseInt(Val(projectForm)) ELSE None
        estimate == IF Truthy(estimateForm) THEN Val(ParseInt(Val(estimateForm))) ELSE 0
    IN  /\ UNCHANGED <<users, projects, sessions, reqs>>
        /\ IF code = "created"
           THEN /\ tasks' = (id :> NewTask(assignee_id, project_id, estimate)) @@ tasks
                /\ resp' = Reply("create_task", "redirect", me, id)
           ELSE /\ resp' = Reply("create_task", code, me, 0)
                /\ UNCHANGED tasks

(***************************************************************************)
(* delete_task                                                             *)
(***************************************************************************)
TaskCode(me, task_id) ==
    IF ~LoggedIn(me) THEN "login"
    ELSE IF task_id \notin DOMAIN tasks THEN "not_found"
    ELSE IF ~MayTouchTask(me, tasks[task_id]) THEN "forbidden"
    ELSE "ok"

DeleteTask(me, task_id) ==
    LET code == TaskCode(me, task_id)
    IN  /\ UNCHANGED <<users, projects, sessions, reqs>>
        /\ IF code = "ok"
           THEN /\ tasks' = [i \in DOMAIN tasks \ {task_id} |-> tasks[i]]
                /\ resp' = Reply("delete_task", "redirect", me, task_id)
           ELSE /\ resp' = Reply("delete_task", code, me, task_id)
                /\ UNCHANGED tasks

(***************************************************************************)
(* mark_done                                                               *)
(***************************************************************************)
IncrementPomos(t) == [t EXCEPT !.actual_pomos = @ + 1]

\* Lines 272-273 crediting only a task that is not done yet.
MarkedDoneOnce(t) ==
    IF t.status = "done" THEN t ELSE [IncrementPomos(t) EXCEPT !.status = "done"]

MarkedDone(t) == [IncrementPomos(t) EXCEPT !.status = "done"]

MarkDone(me, task_id) ==
    LET code == TaskCode(me, task_id)
    IN  /\ UNCHANGED <<users, projects, sessions, reqs>>
        /\ IF code = "ok"
           THEN /\ tasks' = [tasks EXCEPT ![task_id] = MarkedDone(@)]
                /\ resp' = Reply("mark_done", "redirect", me, task_id)
           ELSE /\ resp' = Reply("mark_done", code, me, task_id)
                /\ UNCHANGED tasks


(***************************************************************************)
(* restore_task                                                            *)
(***************************************************************************)
RestoreTask(me, task_id) ==
    LET code == TaskCode(me, task_id)
    IN  /\ UNCHANGED <<users, projects, sessions, reqs>>
        /\ IF code = "ok"
           THEN /\ tasks' = [tasks EXCEPT ![task_id].status = "todo"]
                /\ resp' = Reply("restore_task", "redirect", me, task_id)
           ELSE /\ resp' = Reply("restore_task", code, me, task_id)
                /\ UNCHANGED tasks

(***************************************************************************)
(* update_task.  The status field is stored as sent; title, description,   *)
(* priority and due_date are columns the model does not keep.              *)
(***************************************************************************)
UpdateTaskCode(me, task_id, estimateForm, assigneeForm, projectForm) ==
    IF TaskCode(me, task_id) # "ok" THEN TaskCode(me, task_id)
    ELSE IF Truthy(estimateForm) /\ ParseInt(Val(estimateForm)) = None THEN "error"
    ELSE IF Truthy(assigneeForm) /\ users[me].role = "leader"
            /\ ParseInt(Val(assigneeForm)) = None THEN "error"
    ELSE IF Truthy(projectForm) /\ ParseInt(Val(projectForm)) = None THEN "error"
    ELSE "ok"

\* Lines 240-250: the task row as the handler rewrites it.
UpdatedTask(me, t, statusForm, estimateForm, assigneeForm, projectForm) ==
    [t EXCEPT
       !.status = IF statusForm = None THEN @ ELSE Val(statusForm),
       !.estimate_pomos = IF estimateForm = None THEN @
                          ELSE IF Truthy(estimateForm)
                          THEN Val(ParseInt(Val(estimateForm))) ELSE 0,
       !.assignee_id = IF Truthy(assigneeForm) /\ users[me].role = "leader"
                       THEN Val(ParseInt(Val(assigneeForm))) ELSE @,
       !.project_id = IF Truthy(projectForm) THEN ParseInt(Val(projectForm)) ELSE @]

UpdateTask(me, task_id, statusForm, estimateForm, assigneeForm, projectForm) ==
    LET code == UpdateTaskCode(me, task_id, estimateForm, assigneeForm, projectForm)
    IN  /\ UNCHANGED <<users, projects, sessions, reqs>>
        /\ IF code = "ok"
           THEN /\ tasks' = [tasks EXCEPT ![task_id] =
                       UpdatedTask(me, @, statusForm, estimateForm, assigneeForm,
                                   projectForm)]
                /\ resp' = Reply("update_task", "redirect", me, task_id)
           ELSE /\ resp' = Reply("update_task", code, me, task_id)
                /\ UNCHANGED tasks

(***************************************************************************)
(* Projects: create_project, update_project, delete_project.               *)
(***************************************************************************)
NewProject(team_id) == [team_id |-> team_id]

CreateProject(me, nameForm) ==
    /\ UNCHANGED <<users, tasks, sessions, reqs>>
    /\ IF ~LoggedIn(me)
       THEN resp' = Reply("create_project", "login", me, 0) /\ UNCHANGED projects
       ELSE IF nameForm = None
       THEN resp' = Reply("create_project", "bad_request", me, 0) /\ UNCHANGED projects
       ELSE IF Strip(Val(nameForm)) = <<>>
       THEN resp' = Reply("create_project", "redirect", me, 0) /\ UNCHANGED projects
       ELSE /\ projects' = (NewId(DOMAIN projects) :> NewProject(users[me].team_id))
                               @@ projects
            /\ resp' = Reply("create_project", "redirect", me, NewId(DOMAIN projects))

ProjectCode(me, pid) ==
    IF ~LoggedIn(me) THEN "login"
    ELSE IF pid \notin DOMAIN projects THEN "not_found"
    ELSE IF projects[pid].team_id # users[me].team_id THEN "forbidden"
    ELSE "ok"

\* Only the name changes, a column the model does not keep.
UpdateProject(me, pid, nameForm) ==
    /\ UNCHANGED <<users, projects, tasks, sessions, reqs>>
    /\ resp' = Reply("update_project",
                     IF ProjectCode(me, pid) = "ok" THEN "redirect"
                     ELSE ProjectCode(me, pid), me, pid)

\* Lines 316-318: the project's tasks are detached, then the project goes.
DeleteProject(me, pid) ==
    LET code == ProjectCode(me, pid)
    IN  /\ UNCHANGED <<users, sessions, reqs>>
        /\ IF code = "ok"
           THEN /\ tasks' = [t \in DOMAIN tasks |->
                                IF tasks[t].project_id = Some(pid)
                                THEN [tasks[t] EXCEPT !.project_id = None]
                                ELSE tasks[t]]
                /\ projects' = [p \in DOMAIN projects \ {pid} |-> projects[p]]
                /\ resp' = Reply("delete_project", "redirect", me, pid)
           ELSE /\ resp' = Reply("delete_project", code, me, pid)
                /\ UNCHANGED <<projects, tasks>>

(***************************************************************************)
(* start_session                                                           *)
(***************************************************************************)
\* Line 327 ignoring the field.
PlannedMinutesIgnored(plannedForm) == Some(DefaultPlanned)

\* int(request.form.get("planned_minutes", 25) or 25): None is ValueError.
PlannedMinutes(plannedForm) ==
    IF Truthy(plannedForm) THEN ParseInt(Val(plannedForm)) ELSE Some(DefaultPlanned)

\* int(request.form["task_id"]) if request.form.get("task_id") else None
SessionTaskId(taskForm) ==
    IF Truthy(taskForm) THEN ParseInt(Val(taskForm)) ELSE None

\* Python truthiness of a nullable integer column: None and 0 are falsy.
HasTask(task_id) == task_id # None /\ Val(task_id) # 0

\* Lines 328-331 never looking the task up.
ProjectOfTaskIgnored(task_id) == None

\* Lines 328-331: the project of the task now, None without a task row.
ProjectOfTask(task_id) ==
    IF HasTask(task_id) /\ Val(task_id) \in DOMAIN tasks
    THEN tasks[Val(task_id)].project_id
    ELSE None

\* Lines 325-331 with the task looked up by get_or_404.
StartSessionCodeStrict(me, taskForm, plannedForm) ==
    IF ~LoggedIn(me) THEN "login"
    ELSE IF Truthy(taskForm) /\ ParseInt(Val(taskForm)) = None THEN "error"
    ELSE IF PlannedMinutes(plannedForm) = None THEN "error"
    ELSE IF HasTask(SessionTaskId(taskForm))
            /\ Val(SessionTaskId(taskForm)) \notin DOMAIN tasks THEN "not_found"
    ELSE "ok"

\* Lines 324-327 refusing a caller who still has an Open session.
StartSessionCodeBusy(me, taskForm, plannedForm) ==
    IF ~LoggedIn(me) THEN "login"
    ELSE IF \E id \in 1..Len(sessions) :
                sessions[id].user_id = me /\ sessions[id].end_time = None
    THEN "conflict"
    ELSE IF Truthy(taskForm) /\ ParseInt(Val(taskForm)) = None THEN "error"
    ELSE IF PlannedMinutes(plannedForm) = None THEN "error"
    ELSE "ok"

StartSessionCode(me, taskForm, plannedForm) ==
    IF ~LoggedIn(me) THEN "login"
    ELSE IF Truthy(taskForm) /\ ParseInt(Val(taskForm)) = None THEN "error"
    ELSE IF PlannedMinutes(plannedForm) = None THEN "error"
    ELSE "ok"

StartSession(me, taskForm, plannedForm, now) ==
    LET code == StartSessionCode(me, taskForm, plannedForm)
        task_id == SessionTaskId(taskForm)
        id == Len(sessions) + 1
    IN  /\ UNCHANGED <<users, projects, tasks, reqs>>
        /\ IF code = "ok"
           THEN /\ sessions' = Append(sessions,
                       NewFocusSession(me, task_id, ProjectOfTask(task_id), now,
                                       Val(PlannedMinutes(plannedForm))))
                /\ resp' = Reply("start_session", "ok", me, id)
           ELSE /\ resp' = Reply("start_session", code, me, 0)
                /\ UNCHANGED sessions

(***************************************************************************)
(* finish_session                                                          *)
(***************************************************************************)
\* Lines 345-346 without the clamp at 0.
ActualMinutesUnclamped(start_time, end_time) ==
    (end_time - start_time) \div SecondsPerMinute

\* Lines 345-346: whole minutes between start and end, never negative.
ActualMinutes(start_time, end_time) ==
    Max((end_time - start_time) \div SecondsPerMinute, 0)

\* Line 347 with a default of false for a request that sends no flag.
WasCompletedIfSent(completedForm) ==
    completedForm # None /\ Val(completedForm) = TrueText

\* Line 347: request.form.get("completed", "true") == "true"
WasCompleted(completedForm) ==
    IF completedForm = None THEN TRUE ELSE Val(completedForm) = TrueText

\* Line 343 with the leader override the task handlers have.
MayFinishOrLeader(me, s) == users[me].role = "leader" \/ s.user_id = me

\* Line 343 letting anyone of the owner's team pass.
MayFinishTeam(me, s) == users[me].team_id = users[s.user_id].team_id

\* Line 343: only the owner passes.
MayFinish(me, s) == s.user_id = me

\* Lines 340-343 with an unknown id refused as if it were someone else's.
FinishCodeUnknownForbidden(me, sidForm) ==
    IF ~LoggedIn(me) THEN "login"
    ELSE IF sidForm = None THEN "bad_request"
    ELSE IF ParseInt(Val(sidForm)) = None THEN "error"
    ELSE IF Val(ParseInt(Val(sidForm))) \notin 1..Len(sessions) THEN "forbidden"
    ELSE IF sessions[Val(ParseInt(Val(sidForm)))].user_id # me THEN "forbidden"
    ELSE "ok"

\* Lines 340-343: the request up to the ownership check.
FinishCode(me, sidForm) ==
    IF ~LoggedIn(me) THEN "login"
    ELSE IF sidForm = None THEN "bad_request"
    ELSE IF ParseInt(Val(sidForm)) = None THEN "error"
    ELSE IF Val(ParseInt(Val(sidForm))) \notin 1..Len(sessions) THEN "not_found"
    ELSE IF ~MayFinish(me, sessions[Val(ParseInt(Val(sidForm)))]) THEN "forbidden"
    ELSE "ok"

\* Lines 344-347: the session row as the handler rewrites it.
Finished(s, completedForm, now) ==
    [s EXCEPT !.end_time = Some(now),
              !.actual_minutes = ActualMinutes(s.start_time, now),
              !.was_completed = WasCompleted(completedForm)]

\* Line 350 without the minute of tolerance.
HeuristicFiresExact(s) ==
    /\ HasTask(s.task_id)
    /\ s.was_completed
    /\ s.actual_minutes >= s.planned_minutes

\* Line 350 asking for some elapsed time as well.
HeuristicFiresElapsed(s) ==
    /\ HasTask(s.task_id)
    /\ s.was_completed
    /\ s.actual_minutes > 0
    /\ s.actual_minutes >= s.planned_minutes - 1

\* Line 350: the completion heuristic.
HeuristicFires(s) ==
    /\ HasTask(s.task_id)
    /\ s.was_completed
    /\ s.actual_minutes >= s.planned_minutes - 1

FinishSession(me, sidForm, completedForm, now) ==
    LET code == FinishCode(me, sidForm)
        sid == Val(ParseInt(Val(sidForm)))
        s == Finished(sessions[sid], completedForm, now)
        tid == Val(s.task_id)
    IN  /\ UNCHANGED <<users, projects, reqs>>
        /\ IF code \in {"login", "bad_request", "error"}
           THEN /\ resp' = Reply("finish_session", code, me, 0)
                /\ UNCHANGED <<tasks, sessions>>
           ELSE IF code # "ok"
           THEN /\ resp' = Reply("finish_session", code, me, sid)
                /\ UNCHANGED <<tasks, sessions>>
           ELSE IF ~HeuristicFires(s)
           THEN /\ sessions' = [sessions EXCEPT ![sid] = s]
                /\ resp' = Reply("finish_session", "ok", me, sid)
                /\ UNCHANGED tasks
           ELSE IF tid \notin DOMAIN tasks
           THEN \* Task.query.get gives None: AttributeError, nothing is committed
                /\ resp' = Reply("finish_session", "error", me, sid)
                /\ UNCHANGED <<tasks, sessions>>
           ELSE /\ sessions' = [sessions EXCEPT ![sid] = s]
                /\ tasks' = [tasks EXCEPT ![tid] = IncrementPomos(@)]
                /\ resp' = Reply("finish_session", "ok", me, sid)

(***************************************************************************)
(* The requests served one at a time.  The bounds stop the tables and the  *)
(* counters from growing past the model's size.                            *)
(***************************************************************************)
Digit(n) == Some(ToText(n))

IdForms(ids) == {Digit(n) : n \in ids}

Emails == {"ana", "bo"}

Users == 1..Len(users)

Title == Some(<<"t">>)

NotTrue == Some(<<"f">>)

TasksBelow(n) == Cardinality(DOMAIN tasks) < n

SessionsBelow(n) == Len(sessions) < n

PomosBelow(n) == \A t \in DOMAIN tasks : tasks[t].actual_pomos < n

DoRegister == \E e \in Emails : Register(e)

DoCreateTask ==
    /\ TasksBelow(MaxTasks)
    /\ \E me \in Users : CreateTask(me, Title, None, Digit(1), None)

DoDeleteTask == \E me \in Users, id \in 1..MaxTasks : DeleteTask(me, id)

DoStartSession ==
    /\ SessionsBelow(MaxSessions)
    /\ \E me \in Users, tf \in {None} \cup IdForms(1..MaxTasks) :
           StartSession(me, tf, Digit(0), 0)

DoFinishSession ==
    /\ PomosBelow(MaxPomos)
    /\ \E me \in Users, sf \in IdForms(1..MaxSessions) :
           FinishSession(me, sf, None, 0)

Next ==
    \/ DoRegister
    \/ DoCreateTask
    \/ DoDeleteTask
    \/ DoStartSession
    \/ DoFinishSession

Spec == Init /\ [][Next]_vars

(***************************************************************************)
(* One user timing sessions: the clock and the planned length vary.        *)
(***************************************************************************)
StartInstants == {0, 1440}

FinishInstants == {1439, 1440}

ClockRegister == Register("ana")

ClockCreateTask ==
    /\ TasksBelow(ClockTasks)
    /\ \E me \in Users : CreateTask(me, Title, None, None, None)

ClockStartSession ==
    /\ SessionsBelow(ClockSessions)
    /\ \E me \in Users, tf \in {None} \cup IdForms(1..ClockTasks),
          pf \in {None, Some(<<"2", "4">>)}, now \in StartInstants :
           StartSession(me, tf, pf, now)

ClockFinishSession ==
    /\ PomosBelow(MaxPomos)
    /\ \E me \in Users, sf \in IdForms(1..ClockSessions), cf \in {None, NotTrue},
          now \in FinishInstants :
           FinishSession(me, sf, cf, now)

NextClock ==
    \/ ClockRegister
    \/ ClockCreateTask
    \/ ClockStartSession
    \/ ClockFinishSession

SpecClock == Init /\ [][NextClock]_vars

(***************************************************************************)
(* Sessions started beside sessions that already exist.                    *)
(***************************************************************************)
StartStartSession ==
    /\ SessionsBelow(StartSessions)
    /\ \E me \in Users, pf \in {None, Some(<<"3", "0">>)} :
           StartSession(me, Digit(1), pf, 0)

StartFinishSession ==
    /\ PomosBelow(MaxPomos)
    /\ \E id \in 1..Len(sessions) :
           FinishSession(sessions[id].user_id, Digit(id), None, 0)

NextStart ==
    \/ DoRegister
    \/ DoCreateTask
    \/ StartStartSession
    \/ StartFinishSession

SpecStart == Init /\ [][NextStart]_vars


(***************************************************************************)
(* Requests served concurrently (the server handles each request on its    *)
(* own thread with its own database session).  A handler is cut at its     *)
(* database statements: a SELECT reads the committed tables, the rows it   *)
(* loaded stay in the request's memory (reqs), and commit() writes the     *)
(* columns the handler assigned.  A request that is refused before it      *)
(* writes is answered in its first step.                                   *)
(***************************************************************************)
Remove(seq, i) == SubSeq(seq, 1, i - 1) \o SubSeq(seq, i + 1, Len(seq))

\* finish_session, lines 340-350: the session is loaded and rewritten in memory.
BeginFinish(me, sidForm, completedForm, now) ==
    LET code == FinishCode(me, sidForm)
        sid == Val(ParseInt(Val(sidForm)))
        s == Finished(sessions[sid], completedForm, now)
    IN  /\ UNCHANGED <<users, projects, tasks, sessions>>
        /\ IF code \in {"login", "bad_request", "error"}
           THEN resp' = Reply("finish_session", code, me, 0) /\ UNCHANGED reqs
           ELSE IF code # "ok"
           THEN resp' = Reply("finish_session", code, me, sid) /\ UNCHANGED reqs
           ELSE /\ reqs' = Append(reqs,
                       [op |-> "finish_session",
                        pc |-> IF HeuristicFires(s) THEN "task" ELSE "commit",
                        me |-> me, id |-> sid, row |-> s, task |-> None])
                /\ UNCHANGED resp

\* finish_session, line 351: the task is loaded and its counter raised in memory.
FinishGetTask(i) ==
    LET r == reqs[i]
        tid == Val(r.row.task_id)
    IN  /\ r.op = "finish_session"
        /\ r.pc = "task"
        /\ UNCHANGED <<users, projects, tasks, sessions>>
        /\ IF tid \notin DOMAIN tasks
           THEN /\ resp' = Reply("finish_session", "error", r.me, r.id)
                /\ reqs' = Remove(reqs, i)
           ELSE /\ reqs' = [reqs EXCEPT ![i].task = Some(IncrementPomos(tasks[tid])),
                                        ![i].pc = "commit"]
                /\ UNCHANGED resp

\* finish_session, line 352: the session row and the task's counter are
\* written together; a task row deleted meanwhile fails the whole commit.
FinishCommit(i) ==
    LET r == reqs[i]
        tid == Val(r.row.task_id)
    IN  /\ r.op = "finish_session"
        /\ r.pc = "commit"
        /\ reqs' = Remove(reqs, i)
        /\ UNCHANGED <<users, projects>>
        /\ IF r.task # None /\ tid \notin DOMAIN tasks
           THEN /\ resp' = Reply("finish_session", "error", r.me, r.id)
                /\ UNCHANGED <<tasks, sessions>>
           ELSE /\ sessions' = [sessions EXCEPT ![r.id] = r.row]
                /\ tasks' = IF r.task = None THEN tasks
                            ELSE [tasks EXCEPT
                                    ![tid].actual_pomos = Val(r.task).actual_pomos]
                /\ resp' = Reply("finish_session", "ok", r.me, r.id)

\* mark_done, lines 269-273: the task is loaded and rewritten in memory.
BeginMarkDone(me, task_id) ==
    LET code == TaskCode(me, task_id)
    IN  /\ UNCHANGED <<users, projects, tasks, sessions>>
        /\ IF code # "ok"
           THEN resp' = Reply("mark_done", code, me, task_id) /\ UNCHANGED reqs
           ELSE /\ reqs' = Append(reqs,
                       [op |-> "mark_done", pc |-> "commit", me |-> me,
                        id |-> task_id, task |-> MarkedDone(tasks[task_id])])
                /\ UNCHANGED resp

\* mark_done, line 274.
MarkDoneCommit(i) ==
    LET r == reqs[i]
    IN  /\ r.op = "mark_done"
        /\ r.pc = "commit"
        /\ reqs' = Remove(reqs, i)
        /\ UNCHANGED <<users, projects, sessions>>
        /\ IF r.id \notin DOMAIN tasks
           THEN /\ resp' = Reply("mark_done", "error", r.me, r.id)
                /\ UNCHANGED tasks
           ELSE /\ tasks' = [tasks EXCEPT ![r.id].status = r.task.status,
                                          ![r.id].actual_pomos = r.task.actual_pomos]
                /\ resp' = Reply("mark_done", "redirect", r.me, r.id)

(***************************************************************************)
(* team_dashboard.  Instants are seconds since 1970-01-01 00:00 UTC, a     *)
(* date is its day number, and the server's local date is the UTC date.    *)
(***************************************************************************)
SecondsPerDay == 86400

DateOf(now) == now \div SecondsPerDay

\* date.weekday(): Monday is 0; day 0 was a Thursday.
Weekday(date) == (date + 3) % 7

\* The day of the month (1..31) of a date, by the civil calendar.
DayOfMonth(date) ==
    LET z == date + 719468
        era == z \div 146097
        doe == z - era * 146097
        yoe == (doe - doe \div 1460 + doe \div 36524 - doe \div 146096) \div 365
        doy == doe - (365 * yoe + yoe \div 4 - yoe \div 100)
        mp == (5 * doy + 2) \div 153
    IN  doy - (153 * mp + 2) \div 5 + 1

\* Lines 175-184: the start of the window for the range asked for.
WindowStart(rng, now, today) ==
    IF rng = Some(<<"d", "a", "y">>) THEN today * SecondsPerDay
    ELSE IF rng = Some(<<"m", "o", "n", "t", "h">>)
    THEN (DateOf(now) - (DayOfMonth(DateOf(now)) - 1)) * SecondsPerDay
    ELSE (today - Weekday(today)) * SecondsPerDay

\* Line 174 keeping only the users who have a session.
TeamUsersWithSessions(me) ==
    SelectSeq([u \in 1..Len(users) |-> u],
              LAMBDA u : /\ users[u].team_id = users[me].team_id
                         /\ \E id \in 1..Len(sessions) : sessions[id].user_id = u)

\* Line 174: the users of the caller's team, in id order.
TeamUsers(me) ==
    SelectSeq([u \in 1..Len(users) |-> u],
              LAMBDA u : users[u].team_id = users[me].team_id)

\* Line 187 with the window applied to end_time.
SessionsEndingSince(u, start) ==
    {id \in 1..Len(sessions) :
        /\ sessions[id].user_id = u
        /\ sessions[id].end_time # None
        /\ Val(sessions[id].end_time) >= start}

\* Line 187: the user's sessions that start in the window, by id.
SessionsSince(u, start) ==
    {id \in 1..Len(sessions) :
        sessions[id].user_id = u /\ sessions[id].start_time >= start}

\* Lines 190-191 taking every task that was ever credited.
CreditedTasks(u) ==
    {t \in DOMAIN tasks : tasks[t].assignee_id = u /\ tasks[t].actual_pomos > 0}

\* Lines 190-191: the user's tasks that are done, by id.
DoneTasks(u) ==
    {t \in DOMAIN tasks : tasks[t].assignee_id = u /\ tasks[t].status = "done"}

RECURSIVE Sum(_, _)
Sum(f, ids) ==
    IF ids = {} THEN 0
    ELSE LET id == CHOOSE x \in ids : TRUE IN f[id] + Sum(f, ids \ {id})

\* Line 188.
\* Line 188 adding up the minutes of completed sessions only.
FocusMinutesCompleted(rows) ==
    LET ids == {id \in DOMAIN rows : rows[id].was_completed}
    IN  Sum([id \in ids |-> rows[id].actual_minutes], ids)

FocusMinutes(rows) == Sum([id \in DOMAIN rows |-> rows[id].actual_minutes], DOMAIN rows)

\* Line 189 counting every finished session.
PomosFinished(rows) == Cardinality({id \in DOMAIN rows : rows[id].end_time # None})

\* Line 189.
Pomos(rows) == Cardinality({id \in DOMAIN rows : rows[id].was_completed})

\* Lines 194 and 196 with the quotient cut off, not rounded.
AccuracyTruncated(act, est) ==
    IF est > 0 THEN (act * 1000) \div est ELSE 0

\* Lines 194 and 196: act/est*100 rounded to one decimal, in tenths of a
\* percent; 0 without an estimate.  round() of the float product equals this
\* integer rounding (ties to even) for every est below 80, which covers the
\* totals the model reaches.
Accuracy(act, est) ==
    IF est > 0
    THEN LET q == (act * 1000) \div est
             r == (act * 1000) % est
         IN  IF 2 * r > est \/ (2 * r = est /\ q % 2 = 1) THEN q + 1 ELSE q
    ELSE 0

\* Line 197: sorted by focus_minutes, largest first, ties in their order.
\* Line 197 without reverse=True: the least focus_minutes first.
RECURSIVE SortByFocusAscending(_)
SortByFocusAscending(rows) ==
    IF rows = <<>> THEN rows
    ELSE LET rest == SortByFocusAscending(Tail(rows))
             under == SelectSeq(rest,
                          LAMBDA m : m.focus_minutes < Head(rows).focus_minutes)
             over == SelectSeq(rest,
                          LAMBDA m : m.focus_minutes >= Head(rows).focus_minutes)
         IN  under \o <<Head(rows)>> \o over

RECURSIVE SortByFocus(_)
SortByFocus(rows) ==
    IF rows = <<>> THEN rows
    ELSE LET rest == SortByFocus(Tail(rows))
             above == SelectSeq(rest,
                          LAMBDA m : m.focus_minutes > Head(rows).focus_minutes)
             below == SelectSeq(rest,
                          LAMBDA m : m.focus_minutes <= Head(rows).focus_minutes)
         IN  above \o <<Head(rows)>> \o below

\* Lines 171-185: the guards, the team and the window.
BeginTeam(me, rng, now, today) ==
    /\ UNCHANGED <<users, projects, tasks, sessions>>
    /\ IF ~LoggedIn(me)
       THEN resp' = Reply("team_dashboard", "login", me, 0) /\ UNCHANGED reqs
       ELSE IF users[me].role # "leader"
       THEN resp' = Reply("team_dashboard", "forbidden", me, 0) /\ UNCHANGED reqs
       ELSE /\ reqs' = Append(reqs,
                   [op |-> "team_dashboard", pc |-> "sessions", me |-> me,
                    start |-> WindowStart(rng, now, today), todo |-> TeamUsers(me),
                    ss |-> <<>>, tasks_done |-> 0, rows |-> <<>>])
            /\ UNCHANGED resp

\* Line 187: the next user's sessions are read.
TeamReadSessions(i) ==
    LET r == reqs[i]
    IN  /\ r.op = "team_dashboard"
        /\ r.pc = "sessions"
        /\ r.todo # <<>>
        /\ reqs' = [reqs EXCEPT
               ![i].ss = [id \in SessionsSince(Head(r.todo), r.start) |-> sessions[id]],
               ![i].pc = "count"]
        /\ UNCHANGED <<users, projects, tasks, sessions, resp>>

\* Line 190: the user's done tasks are counted.
TeamCountDone(i) ==
    LET r == reqs[i]
    IN  /\ r.op = "team_dashboard"
        /\ r.pc = "count"
        /\ reqs' = [reqs EXCEPT ![i].tasks_done = Cardinality(DoneTasks(Head(r.todo))),
                                ![i].pc = "tasks"]
        /\ UNCHANGED <<users, projects, tasks, sessions, resp>>

\* Lines 191-196: the user's done tasks are read and the user's entry is made.
TeamReadTasks(i) ==
    LET r == reqs[i]
        u == Head(r.todo)
        done == DoneTasks(u)
        est == Sum([t \in done |-> tasks[t].estimate_pomos], done)
        act == Sum([t \in done |-> tasks[t].actual_pomos], done)
    IN  /\ r.op = "team_dashboard"
        /\ r.pc = "tasks"
        /\ reqs' = [reqs EXCEPT
               ![i].rows = Append(@,
                   [user |-> u, focus_minutes |-> FocusMinutes(r.ss),
                    pomos |-> Pomos(r.ss), tasks_done |-> r.tasks_done,
                    estimate_accuracy |-> Accuracy(act, est)]),
               ![i].todo = Tail(@),
               ![i].pc = "sessions"]
        /\ UNCHANGED <<users, projects, tasks, sessions, resp>>

\* Lines 197-210: the entries are sorted and the page is answered.
TeamAnswer(i) ==
    LET r == reqs[i]
    IN  /\ r.op = "team_dashboard"
        /\ r.pc = "sessions"
        /\ r.todo = <<>>
        /\ reqs' = Remove(reqs, i)
        /\ resp' = [op |-> "team_dashboard", code |-> "ok", caller |-> r.me, id |-> 0,
                    start |-> r.start, members_stats |-> SortByFocus(r.rows)]
        /\ UNCHANGED <<users, projects, tasks, sessions>>

\* Lines 187-196: one user's figures.
\* Lines 186-196 with figures that remember the report served just before.
MemberStatsCounting(u, start) ==
    LET ss == [id \in SessionsSince(u, start) |-> sessions[id]]
        done == DoneTasks(u)
        est == Sum([t \in done |-> tasks[t].estimate_pomos], done)
        act == Sum([t \in done |-> tasks[t].actual_pomos], done)
        seen == IF resp.op = "team_dashboard" /\ resp.code = "ok" THEN 1 ELSE 0
    IN  [user |-> u, focus_minutes |-> FocusMinutes(ss) + seen, pomos |-> Pomos(ss),
         tasks_done |-> Cardinality(done), estimate_accuracy |-> Accuracy(act, est)]

MemberStats(u, start) ==
    LET ss == [id \in SessionsSince(u, start) |-> sessions[id]]
        done == DoneTasks(u)
        est == Sum([t \in done |-> tasks[t].estimate_pomos], done)
        act == Sum([t \in done |-> tasks[t].actual_pomos], done)
    IN  [user |-> u, focus_minutes |-> FocusMinutes(ss), pomos |-> Pomos(ss),
         tasks_done |-> Cardinality(done), estimate_accuracy |-> Accuracy(act, est)]

\* leader_required letting every logged-in caller through.
IsLeaderOrMember(me) == users[me].role \in {"leader", "member"}

\* leader_required, lines 99-101, for a caller who is logged in.
IsLeader(me) == users[me].role = "leader"

\* team_dashboard served without another request in between.
TeamDashboard(me, rng, now, today) ==
    LET start == WindowStart(rng, now, today)
        team == TeamUsers(me)
    IN  /\ UNCHANGED <<users, projects, tasks, sessions, reqs>>
        /\ IF ~LoggedIn(me)
           THEN resp' = Reply("team_dashboard", "login", me, 0)
           ELSE IF ~IsLeader(me)
           THEN resp' = Reply("team_dashboard", "forbidden", me, 0)
           ELSE resp' = [op |-> "team_dashboard", code |-> "ok", caller |-> me,
                         id |-> 0, start |-> start,
                         members_stats |->
                             SortByFocus([i \in 1..Len(team) |->
                                             MemberStats(team[i], start)])]

\* dashboard, lines 154-159: the caller's own figures for today.
Dashboard(me, today) ==
    LET start_of_day == today * SecondsPerDay
        sessions_today == [id \in SessionsSince(me, start_of_day) |-> sessions[id]]
    IN  /\ UNCHANGED <<users, projects, tasks, sessions, reqs>>
        /\ IF ~LoggedIn(me)
           THEN resp' = Reply("dashboard", "login", me, 0)
           ELSE resp' = [op |-> "dashboard", code |-> "ok", caller |-> me, id |-> 0,
                         start |-> start_of_day,
                         mins_today |-> FocusMinutes(sessions_today),
                         pomos_today |-> Pomos(sessions_today)]

Idle == reqs = <<>>

ConcCreateTask ==
    /\ Idle
    /\ TasksBelow(MaxTasks)
    /\ \E me \in Users : CreateTask(me, Title, None, None, None)

ConcStartSession ==
    /\ Idle
    /\ SessionsBelow(MaxSessions)
    /\ \E me \in Users, tf \in IdForms(1..MaxTasks) :
           StartSession(me, tf, Digit(0), 0)

ConcBeginFinish ==
    /\ Len(reqs) < MaxInflight
    /\ PomosBelow(MaxPomos)
    /\ \E me \in Users, sf \in IdForms(1..MaxSessions) : BeginFinish(me, sf, None, 0)

ConcBeginMarkDone ==
    /\ Len(reqs) < MaxInflight
    /\ PomosBelow(MaxPomos)
    /\ \E me \in Users, id \in 1..MaxTasks : BeginMarkDone(me, id)

ConcBeginTeam ==
    /\ \A i \in 1..Len(reqs) : reqs[i].op # "team_dashboard"
    /\ Len(reqs) < MaxInflight
    /\ \E me \in Users : BeginTeam(me, None, 0, DateOf(0))

ConcFinishGetTask == \E i \in 1..Len(reqs) : FinishGetTask(i)

ConcFinishCommit == \E i \in 1..Len(reqs) : FinishCommit(i)

ConcMarkDoneCommit == \E i \in 1..Len(reqs) : MarkDoneCommit(i)

ConcTeamReadSessions == \E i \in 1..Len(reqs) : TeamReadSessions(i)

ConcTeamCountDone == \E i \in 1..Len(reqs) : TeamCountDone(i)

ConcTeamReadTasks == \E i \in 1..Len(reqs) : TeamReadTasks(i)

ConcTeamAnswer == \E i \in 1..Len(reqs) : TeamAnswer(i)

ConcRegister == Idle /\ ClockRegister

NextConc ==
    \/ ConcRegister
    \/ ConcCreateTask
    \/ ConcStartSession
    \/ ConcBeginFinish
    \/ ConcBeginMarkDone
    \/ ConcBeginTeam
    \/ ConcFinishGetTask
    \/ ConcFinishCommit
    \/ ConcMarkDoneCommit
    \/ ConcTeamReadSessions
    \/ ConcTeamCountDone
    \/ ConcTeamReadTasks
    \/ ConcTeamAnswer

SpecConc == Init /\ [][NextConc]_vars

(***************************************************************************)
(* Reports beside the ledger: sessions start a second before or at the     *)
(* Monday midnight of the report's week and run two minutes.               *)
(***************************************************************************)
RepTasks == 1
RepSessions == 2

Monday == 4 * SecondsPerDay

ReportInstant == Monday + 200

Ranges == {None, Some(<<"d", "a", "y">>), Some(<<"m", "o", "n", "t", "h">>)}

RepCreateTask ==
    /\ TasksBelow(RepTasks)
    /\ \E me \in Users : CreateTask(me, Title, None, None, Some(<<"4">>))

RepMarkDone ==
    /\ PomosBelow(MaxPomos)
    /\ \E me \in Users, id \in 1..RepTasks : MarkDone(me, id)

RepRestoreTask == \E me \in Users, id \in 1..RepTasks : RestoreTask(me, id)

RepStartSession ==
    /\ SessionsBelow(RepSessions)
    /\ \E me \in Users, now \in {Monday - 1, Monday} : StartSession(me, None, None, now)

RepFinishSession ==
    \E id \in 1..Len(sessions), cf \in {None, NotTrue} :
        FinishSession(sessions[id].user_id, Digit(id), cf, Monday + 120)

RepTeamDashboard ==
    \E me \in Users, rng \in Ranges :
        TeamDashboard(me, rng, ReportInstant, DateOf(ReportInstant))

RepDashboard == \E me \in Users : Dashboard(me, DateOf(ReportInstant))

NextReport ==
    \/ DoRegister
    \/ RepStartSession
    \/ RepFinishSession
    \/ RepTeamDashboard
    \/ RepDashboard

SpecReport == Init /\ [][NextReport]_vars

(***************************************************************************)
(* Reports beside tasks that are marked done and restored.                 *)
(***************************************************************************)
NextDone ==
    \/ DoRegister
    \/ RepCreateTask
    \/ RepMarkDone
    \/ RepRestoreTask
    \/ RepTeamDashboard

SpecDone == Init /\ [][NextDone]_vars

(***************************************************************************)
(* The accuracy figure over ledgers of done and restored tasks: every      *)
(* task belongs to the leader, the member has none.                        *)
(***************************************************************************)
AccTasks == 2

Estimates == {0, 3, 4, 6}

Credits == {0, 1, 5}

InitAcc ==
    /\ users = <<NewUser("ana", 0), NewUser("bo", 1)>>
    /\ projects = <<>>
    /\ tasks \in [1..AccTasks ->
                    [assignee_id : {1}, project_id : {None}, status : {"todo", "done"},
                     estimate_pomos : Estimates, actual_pomos : Credits]]
    /\ sessions = <<>>
    /\ resp = Reply("none", "none", 0, 0)
    /\ reqs = <<>>

AccTeamDashboard == TeamDashboard(1, None, ReportInstant, DateOf(ReportInstant))

AccRestoreTask == \E id \in 1..AccTasks : RestoreTask(1, id)

AccUpdateTask == \E id \in 1..AccTasks : UpdateTask(1, id, Some("done"), None, None, None)

NextAcc ==
    \/ AccTeamDashboard
    \/ AccRestoreTask
    \/ AccUpdateTask

SpecAcc == InitAcc /\ [][NextAcc]_vars

(***************************************************************************)
(* A session beside everything else that happens: tasks and projects are   *)
(* created, changed and deleted, reports are read, a minute passes.        *)
(***************************************************************************)
LifeRows == 2
LifePomos == 1

\* The rows of the project, task and session tables together.
RowsBelow(n) == Cardinality(DOMAIN projects) + Cardinality(DOMAIN tasks) + Len(sessions) < n

\* ana registers first and is the leader.
LifeRegister == Register("ana") \/ (users # <<>> /\ Register("bo"))

LifeCreateProject == RowsBelow(LifeRows) /\ CreateProject(1, Title)

LifeUpdateProject == \E pid \in 1..LifeRows : UpdateProject(1, pid, Title)

LifeDeleteProject == \E pid \in 1..LifeRows : DeleteProject(1, pid)

LifeCreateTask == RowsBelow(LifeRows) /\ CreateTask(1, Title, None, None, None)

LifeUpdateTask ==
    \E id \in DOMAIN tasks : UpdateTask(1, id, None, Some(<<"4">>), None, None)

LifeDeleteTask == \E id \in 1..LifeRows : DeleteTask(1, id)

LifeMarkDone ==
    /\ PomosBelow(LifePomos)
    /\ \E id \in DOMAIN tasks : MarkDone(1, id)

LifeRestoreTask == \E id \in DOMAIN tasks : RestoreTask(1, id)

LifeStartSession ==
    /\ RowsBelow(LifeRows)
    /\ \E me \in Users : StartSession(me, None, None, 0)

LifeFinishSession ==
    \E me \in Users, id \in 1..Len(sessions) :
        FinishSession(me, Digit(id), None, SecondsPerMinute)

LifeDashboard == \E me \in Users : Dashboard(me, DateOf(SecondsPerMinute))

LifeTeamDashboard ==
    \E me \in Users : TeamDashboard(me, None, SecondsPerMinute, DateOf(SecondsPerMinute))

NextLife ==
    \/ LifeRegister
    \/ LifeCreateProject
    \/ LifeUpdateProject
    \/ LifeDeleteProject
    \/ LifeCreateTask
    \/ LifeUpdateTask
    \/ LifeDeleteTask
    \/ LifeMarkDone
    \/ LifeRestoreTask
    \/ LifeStartSession
    \/ LifeFinishSession
    \/ LifeDashboard
    \/ LifeTeamDashboard

SpecLife == Init /\ [][NextLife]_vars

(***************************************************************************)
(* One user's sessions on tasks that move between projects and go away.    *)
(***************************************************************************)
ProjRows == 3

ProjCreateProject == RowsBelow(ProjRows) /\ CreateProject(1, Title)

ProjDeleteProject == DeleteProject(1, 1)

ProjCreateTask == RowsBelow(ProjRows) /\ CreateTask(1, Title, None, Digit(1), None)

ProjUpdateTask == \E id \in DOMAIN tasks : UpdateTask(1, id, None, None, None, Digit(2))

ProjDeleteTask == DeleteTask(1, 1)

ProjStartSession ==
    /\ RowsBelow(ProjRows)
    /\ \E tf \in {None, Digit(1)} : StartSession(1, tf, None, 0)

ProjFinishSession ==
    \E id \in 1..Len(sessions) : FinishSession(1, Digit(id), None, SecondsPerMinute)

NextProj ==
    \/ ClockRegister
    \/ ProjCreateProject
    \/ ProjDeleteProject
    \/ ProjCreateTask
    \/ ProjUpdateTask
    \/ ProjDeleteTask
    \/ ProjStartSession
    \/ ProjFinishSession

SpecProj == Init /\ [][NextProj]_vars

(***************************************************************************)
(* The planned_minutes field in every shape: absent, empty, not a number,  *)
(* zero, negative; the session is finished before, at and after its start. *)
(***************************************************************************)
FormTasks == 1
FormSessions == 2
FormPomos == 2

Malformed == {None, Some(<<>>), Some(<<"x">>)}

NotPositive == {Some(<<"0">>), Some(<<"-", "1">>)}

FormStart == SecondsPerMinute

FormFinishInstants == {0, FormStart, FormStart + 1440}

FormCreateTask ==
    /\ TasksBelow(FormTasks)
    /\ \E me \in Users : CreateTask(me, Title, None, None, None)

FormStartSession ==
    /\ SessionsBelow(FormSessions)
    /\ \E me \in Users, pf \in Malformed \cup NotPositive :
           StartSession(me, Digit(1), pf, FormStart)

FormFinishSession ==
    /\ PomosBelow(FormPomos)
    /\ \E id \in 1..Len(sessions), now \in FormFinishInstants :
           FinishSession(sessions[id].user_id, Digit(id), None, now)

NextForm ==
    \/ ClockRegister
    \/ FormCreateTask
    \/ FormStartSession
    \/ FormFinishSession

SpecForm == Init /\ [][NextForm]_vars

(***************************************************************************)
(* The completed flag of a finish request in each shape a client sends:    *)
(* sessions without a task, finished by their owner.                       *)
(***************************************************************************)
FlagSessions == 2

FalseText == <<"f", "a", "l", "s", "e">>

\* The completed flag as a client sends it: absent, "true" or "false".
Flags == {None, Some(TrueText), Some(FalseText)}

FlagFinishInstants == {SecondsPerMinute, 2 * SecondsPerMinute}

FlagStartSession ==
    /\ SessionsBelow(FlagSessions)
    /\ \E me \in Users : StartSession(me, None, None, 0)

FlagFinishSession ==
    \E id \in 1..Len(sessions), now \in FlagFinishInstants, cf \in Flags :
        FinishSession(sessions[id].user_id, Digit(id), cf, now)

NextFlag ==
    \/ DoRegister
    \/ FlagStartSession
    \/ FlagFinishSession

SpecFlag == Init /\ [][NextFlag]_vars

(***************************************************************************)
(* The report windows over the calendar.  The request's now is utcnow()    *)
(* (line 176) and the date is date.today() (lines 178 and 182), which is   *)
(* the date of the server's own time zone: the zone is a choice of the     *)
(* deployment, given here as its offset from UTC in seconds.               *)
(***************************************************************************)
WinSessions == 1

\* Sun 1970-01-04 23:59:59, Mon 1970-01-05 00:00 and 20:00, Sat 1970-01-31
\* 20:00, Sun 1970-03-01 00:00, Tue 1972-02-29 12:00, Wed 1972-03-01 03:00,
\* Wed 2026-11-04 21:00, all UTC, in seconds since 1970-01-01.
WindowInstants == {345599, 345600, 417600, 2664000, 5097600, 68212800, 68266800, 1793826000}

\* UTC, UTC+7 and UTC-5.
UtcOffsets == {0, 25200, 0 - 18000}

\* date.today() in a zone that is offset seconds ahead of UTC.
LocalDate(now, offset) == DateOf(now + offset)

WindowRanges == Ranges \cup {Some(<<"w", "e", "e", "k">>), Some(<<"x">>)}

WinStartSession ==
    /\ SessionsBelow(WinSessions)
    /\ \E me \in Users, now \in WindowInstants : StartSession(me, None, None, now)

WinFinishSession ==
    \E id \in 1..Len(sessions) :
        FinishSession(sessions[id].user_id, Digit(id), None,
                      sessions[id].start_time + 2 * SecondsPerMinute)

WinTeamDashboard ==
    \E me \in Users, rng \in WindowRanges, now \in WindowInstants, offset \in UtcOffsets :
        TeamDashboard(me, rng, now, LocalDate(now, offset))

WinDashboard ==
    \E me \in Users, now \in WindowInstants, offset \in UtcOffsets :
        Dashboard(me, LocalDate(now, offset))

NextWindow ==
    \/ DoRegister
    \/ WinStartSession
    \/ WinFinishSession
    \/ WinTeamDashboard
    \/ WinDashboard

SpecWindow == Init /\ [][NextWindow]_vars

(***************************************************************************)
(* Properties of the session engine.                                       *)
(***************************************************************************)
Closed(s) == s.end_time # None

FinishedOk == resp.op = "finish_session" /\ resp.code = "ok"

\* floor(d / 60) for d >= 0, by its defining inequalities.
WholeMinutes(d) == CHOOSE q \in 0..d : q * 60 <= d /\ d < (q + 1) * 60

\* C1: every finished session has actual_minutes = max(0, floor((end_time -
\* start_time) in seconds / 60)), also when end_time is before start_time.
C1_ActualMinutes ==
    \A id \in 1..Len(sessions) :
        LET s == sessions[id]
            d == Val(s.end_time) - s.start_time
        IN  Closed(s) =>
                s.actual_minutes = IF d < 0 THEN 0 ELSE WholeMinutes(d)

\* A finish has succeeded at an instant before the session's start (0 minutes).
C1_Witness ==
    /\ FinishedOk
    /\ Val(sessions[resp.id].end_time) < sessions[resp.id].start_time
    /\ sessions[resp.id].actual_minutes = 0

\* The heuristic's condition, read off the finished session row.
Earned(s) ==
    /\ s.task_id # None
    /\ Val(s.task_id) # 0
    /\ s.was_completed
    /\ s.actual_minutes >= s.planned_minutes - 1

\* C2: a successful FinishSession adds exactly 1 to the linked task's
\* actual_pomos when the session has a task, was completed and ran for at
\* least planned_minutes - 1 minutes, and otherwise changes no task; it never
\* changes another task.
C2_Heuristic ==
    [][(resp'.op = "finish_session" /\ resp'.code = "ok") =>
          LET s == sessions'[resp'.id]
          IN  /\ DOMAIN tasks' = DOMAIN tasks
              /\ \A t \in DOMAIN tasks :
                    tasks'[t] = IF Earned(s) /\ t = Val(s.task_id)
                                THEN [tasks[t] EXCEPT !.actual_pomos = @ + 1]
                                ELSE tasks[t]]_vars

\* Planned 25 and 24 minutes run: the linked task has been credited, the
\* other task has not.
C2_Witness ==
    /\ FinishedOk
    /\ LET s == sessions[resp.id]
       IN  /\ s.planned_minutes = 25
           /\ s.actual_minutes = 24
           /\ s.was_completed
           /\ s.task_id # None
           /\ Val(s.task_id) \in DOMAIN tasks
           /\ tasks[Val(s.task_id)].actual_pomos = 1
           /\ \E t \in DOMAIN tasks : t # Val(s.task_id) /\ tasks[t].actual_pomos = 0

\* Planned 25 and 23 minutes run, completed: the linked task is not credited.
C2_WitnessShort ==
    /\ FinishedOk
    /\ LET s == sessions[resp.id]
       IN  /\ s.planned_minutes = 25
           /\ s.actual_minutes = 23
           /\ s.was_completed
           /\ s.task_id # None
           /\ Val(s.task_id) \in DOMAIN tasks
           /\ tasks[Val(s.task_id)].actual_pomos = 0

\* C3: a second FinishSession on a session that is already Closed changes
\* nothing or returns an error, so the task is credited once.
C3_SecondFinish ==
    [][(/\ resp'.op = "finish_session"
        /\ resp'.code = "ok"
        /\ Closed(sessions[resp'.id]))
          => UNCHANGED <<sessions, tasks>>]_vars

\* C4: a Closed session keeps its end_time, actual_minutes and was_completed.
C4_ClosedIsTerminal ==
    [][\A id \in 1..Len(sessions) :
          Closed(sessions[id]) =>
              /\ sessions'[id].end_time = sessions[id].end_time
              /\ sessions'[id].actual_minutes = sessions[id].actual_minutes
              /\ sessions'[id].was_completed = sessions[id].was_completed]_vars


\* C5: FinishSession by anyone but the session's owner is Forbidden and
\* changes no session and no task, a leader included.
C5_OnlyOwnerFinishes ==
    [][(/\ resp'.op = "finish_session"
        /\ resp'.id \in 1..Len(sessions)
        /\ sessions[resp'.id].user_id # resp'.caller)
          => (resp'.code = "forbidden" /\ UNCHANGED <<sessions, tasks>>)]_vars

\* The leader has been refused on an open session of a member of the same
\* team, whose finish would have credited its task.
C5_Witness ==
    /\ resp.op = "finish_session"
    /\ resp.code = "forbidden"
    /\ LET s == sessions[resp.id]
       IN  /\ users[resp.caller].role = "leader"
           /\ users[s.user_id].role = "member"
           /\ users[s.user_id].team_id = users[resp.caller].team_id
           /\ ~Closed(s)
           /\ s.planned_minutes = 0
           /\ s.task_id # None
           /\ Val(s.task_id) \in DOMAIN tasks

\* A member has been refused on a session of the leader.
C5_WitnessMember ==
    /\ resp.op = "finish_session"
    /\ resp.code = "forbidden"
    /\ users[resp.caller].role = "member"
    /\ users[sessions[resp.id].user_id].role = "leader"

\* C6: FinishSession with an id no session has is NotFound and changes no
\* session and no task.
C6_UnknownSession ==
    [][\A me \in Users, id \in 1..MaxSessions :
          (/\ resp'.op = "finish_session"
           /\ id > Len(sessions)
           /\ FinishSession(me, Digit(id), None, 0))
              => (resp'.code = "not_found" /\ UNCHANGED <<sessions, tasks>>)]_vars

\* An unknown id has been answered NotFound while a task exists.
C6_Witness ==
    /\ resp.op = "finish_session"
    /\ resp.code = "not_found"
    /\ resp.id > Len(sessions)
    /\ DOMAIN tasks # {}

\* C9: StartSession by an authenticated user appends exactly one session with
\* a fresh id, owned by the caller, Open, not completed, 0 actual minutes and
\* the planned minutes supplied (25 when none are), and changes no existing
\* session and no task.
C9_StartCreatesOne ==
    [][\A me \in Users, pf \in {None, Some(<<"3", "0">>)} :
          (resp'.op = "start_session" /\ StartSession(me, Digit(1), pf, 0)) =>
              /\ resp'.code = "ok"
              /\ Len(sessions') = Len(sessions) + 1
              /\ resp'.id = Len(sessions')
              /\ \A id \in 1..Len(sessions) : sessions'[id] = sessions[id]
              /\ tasks' = tasks
              /\ LET s == sessions'[resp'.id]
                 IN  /\ s.user_id = me
                     /\ s.end_time = None
                     /\ s.was_completed = FALSE
                     /\ s.actual_minutes = 0
                     /\ s.planned_minutes = IF pf = None THEN 25 ELSE 30]_vars

\* The member has started a second session, planned 30, beside a Closed one
\* of the leader, with a task in the ledger.
C9_Witness ==
    /\ resp.op = "start_session"
    /\ resp.code = "ok"
    /\ resp.id = 2
    /\ Len(sessions) = 2
    /\ sessions[2].user_id = 2
    /\ sessions[2].planned_minutes = 30
    /\ ~Closed(sessions[2])
    /\ sessions[1].user_id = 1
    /\ Closed(sessions[1])
    /\ DOMAIN tasks # {}

\* C10: StartSession naming a task id that no task has does not fail: the
\* session is created with that task_id and project_id null, and its id is
\* returned.
C10_MissingTask ==
    [][\A me \in Users, id \in 1..MaxTasks :
          (/\ resp'.op = "start_session"
           /\ id \notin DOMAIN tasks
           /\ StartSession(me, Digit(id), Digit(0), 0)) =>
              /\ resp'.code = "ok"
              /\ Len(sessions') = Len(sessions) + 1
              /\ resp'.id = Len(sessions')
              /\ sessions'[resp'.id].task_id = Some(id)
              /\ sessions'[resp'.id].project_id = None]_vars

\* A session has been started on a task id that no task has.
C10_Witness ==
    /\ resp.op = "start_session"
    /\ resp.code = "ok"
    /\ LET s == sessions[resp.id]
       IN  /\ s.task_id # None
           /\ Val(s.task_id) \notin DOMAIN tasks
           /\ s.project_id = None


\* A step in which a request in flight commits and is answered.
Answered == Len(reqs') < Len(reqs)

\* C7: no increment of actual_pomos is lost: every mark-done and every
\* FinishSession whose heuristic fires, when it succeeds, leaves the task's
\* counter one above what it was, whatever ran in between.
C7_NoLostIncrement ==
    [][/\ (resp'.op = "mark_done" /\ resp'.code = "redirect" /\ Answered)
            => tasks'[resp'.id].actual_pomos = tasks[resp'.id].actual_pomos + 1
       /\ (resp'.op = "finish_session" /\ resp'.code = "ok" /\ Answered
             /\ Earned(sessions'[resp'.id]))
            => LET t == Val(sessions'[resp'.id].task_id)
               IN  tasks'[t].actual_pomos = tasks[t].actual_pomos + 1]_vars


\* C8: a report never sees a finish half applied: when it reads a user's done
\* tasks (line 191), no session it read as Open for that user (line 187) has
\* meanwhile been finished with its credit written to one of those tasks.
C8_ReportSeesWholeFinish ==
    [][\A i \in 1..Len(reqs) :
          (/\ Len(reqs') = Len(reqs)
           /\ reqs[i].op = "team_dashboard"
           /\ reqs[i].pc = "tasks"
           /\ reqs'[i].pc = "sessions")
            => \A id \in DOMAIN reqs[i].ss :
                  ~(/\ ~Closed(reqs[i].ss[id])
                    /\ Closed(sessions[id])
                    /\ Earned(sessions[id])
                    /\ Val(sessions[id].task_id) \in DoneTasks(Head(reqs[i].todo)))]_vars

(***************************************************************************)
(* Properties of the reports.                                              *)
(***************************************************************************)
TeamReport == resp.op = "team_dashboard" /\ resp.code = "ok"

OwnReport == resp.op = "dashboard" /\ resp.code = "ok"

\* The sessions of user u that start at or after the instant start.
InWindow(u, start) ==
    {id \in 1..Len(sessions) :
        sessions[id].user_id = u /\ sessions[id].start_time >= start}

Minutes(ids) == Sum([id \in ids |-> sessions[id].actual_minutes], ids)

Completed(ids) == Cardinality({id \in ids : sessions[id].was_completed})

\* C12: in a report a user's focus_minutes is the sum of actual_minutes over
\* exactly the user's sessions whose start_time is in the window: a session
\* that starts before the window is left out even when it ends inside, one
\* that starts inside counts in full.
C12_FocusMinutes ==
    /\ TeamReport =>
          \A i \in 1..Len(resp.members_stats) :
              resp.members_stats[i].focus_minutes
                  = Minutes(InWindow(resp.members_stats[i].user, resp.start))
    /\ OwnReport => resp.mins_today = Minutes(InWindow(resp.caller, resp.start))

\* A team report shows 2 minutes for a user who has a two-minute session that
\* starts a second before the window and ends inside it, and another that
\* starts inside.
C12_Witness ==
    /\ TeamReport
    /\ \E i \in 1..Len(resp.members_stats), a, b \in 1..Len(sessions) :
          LET m == resp.members_stats[i]
          IN  /\ sessions[a].user_id = m.user
              /\ sessions[b].user_id = m.user
              /\ sessions[a].start_time = resp.start - 1
              /\ Closed(sessions[a])
              /\ Val(sessions[a].end_time) > resp.start
              /\ sessions[a].actual_minutes = 2
              /\ sessions[b].start_time >= resp.start
              /\ sessions[b].actual_minutes = 2
              /\ m.focus_minutes = 2

\* C13: a user's pomodoro count is the number of sessions of the same window
\* set whose was_completed is true; Open sessions and sessions finished with
\* completed=false are not counted.
C13_PomodoroCount ==
    /\ TeamReport =>
          \A i \in 1..Len(resp.members_stats) :
              LET ids == InWindow(resp.members_stats[i].user, resp.start)
              IN  /\ resp.members_stats[i].pomos = Completed(ids)
                  /\ resp.members_stats[i].pomos
                        <= Cardinality({id \in ids :
                               Closed(sessions[id]) /\ sessions[id].was_completed})
    /\ OwnReport => resp.pomos_today = Completed(InWindow(resp.caller, resp.start))

\* A team report counts 0 pomodoros for a user whose two sessions in the
\* window are one Open and one finished with completed=false.
C13_Witness ==
    /\ TeamReport
    /\ \E i \in 1..Len(resp.members_stats), a, b \in 1..Len(sessions) :
          LET m == resp.members_stats[i]
          IN  /\ {a, b} \subseteq InWindow(m.user, resp.start)
              /\ ~Closed(sessions[a])
              /\ Closed(sessions[b])
              /\ ~sessions[b].was_completed
              /\ m.pomos = 0

\* A team report counts 1 pomodoro for a user with a completed session in the
\* window and another completed session that starts before it.
C13_WitnessCounted ==
    /\ TeamReport
    /\ \E i \in 1..Len(resp.members_stats), a, b \in 1..Len(sessions) :
          LET m == resp.members_stats[i]
          IN  /\ a \in InWindow(m.user, resp.start)
              /\ sessions[a].was_completed
              /\ sessions[b].user_id = m.user
              /\ sessions[b].start_time < resp.start
              /\ sessions[b].was_completed
              /\ m.pomos = 1

\* C16: the team report goes only to a caller whose role is leader; any other
\* logged-in caller gets Forbidden and no statistics.
C16_LeaderOnly ==
    (resp.op = "team_dashboard" /\ resp.caller \in Users) =>
        IF users[resp.caller].role = "leader"
        THEN resp.code = "ok"
        ELSE resp.code = "forbidden" /\ DOMAIN resp = {"op", "code", "caller", "id"}

\* A member has asked for the team report while a session with minutes is in
\* the window, and was refused.
C16_Witness ==
    /\ resp.op = "team_dashboard"
    /\ resp.code = "forbidden"
    /\ users[resp.caller].role = "member"
    /\ \E id \in 1..Len(sessions) : sessions[id].actual_minutes > 0

\* C17: the team report has exactly one entry for every user of the caller's
\* team, also for one without sessions or tasks, none for anyone else, and
\* each entry holds that user's own figures.
C17_OneEntryPerMember ==
    TeamReport =>
        LET team == {u \in Users : users[u].team_id = users[resp.caller].team_id}
            stats == resp.members_stats
        IN  /\ Len(stats) = Cardinality(team)
            /\ \A u \in team : \E i \in 1..Len(stats) : stats[i].user = u
            /\ \A i \in 1..Len(stats) :
                  LET u == stats[i].user
                  IN  /\ u \in team
                      /\ stats[i].focus_minutes = Minutes(InWindow(u, resp.start))
                      /\ stats[i].pomos = Completed(InWindow(u, resp.start))
                      /\ stats[i].tasks_done =
                            Cardinality({t \in DOMAIN tasks :
                                tasks[t].assignee_id = u /\ tasks[t].status = "done"})

\* A report with two entries: one user has minutes in the window, the other
\* has no session and no task and an entry of zeros.
C17_Witness ==
    /\ TeamReport
    /\ Len(resp.members_stats) = 2
    /\ \E i, j \in 1..2 :
          /\ resp.members_stats[i].focus_minutes = 2
          /\ resp.members_stats[j].focus_minutes = 0
          /\ resp.members_stats[j].pomos = 0
          /\ \A id \in 1..Len(sessions) :
                sessions[id].user_id # resp.members_stats[j].user
          /\ \A t \in DOMAIN tasks :
                tasks[t].assignee_id # resp.members_stats[j].user

\* C14: a user's tasks_done is the number of tasks now assigned to the user
\* with status done, whatever the window: up after mark-done, down again
\* after restore.
C14_TasksDone ==
    TeamReport =>
        \A i \in 1..Len(resp.members_stats) :
            resp.members_stats[i].tasks_done =
                Cardinality({t \in DOMAIN tasks :
                    /\ tasks[t].assignee_id = resp.members_stats[i].user
                    /\ tasks[t].status = "done"})

\* A report shows 0 tasks done for a user whose only task was marked done and
\* then restored.
C14_Witness ==
    /\ TeamReport
    /\ \E i \in 1..Len(resp.members_stats), t \in DOMAIN tasks :
          /\ tasks[t].assignee_id = resp.members_stats[i].user
          /\ tasks[t].actual_pomos = 1
          /\ tasks[t].status = "todo"
          /\ resp.members_stats[i].tasks_done = 0

\* A month report shows 1 task done for a user whose task is done.
C14_WitnessDone ==
    /\ TeamReport
    /\ resp.start = 0
    /\ \E i \in 1..Len(resp.members_stats), t \in DOMAIN tasks :
          /\ tasks[t].assignee_id = resp.members_stats[i].user
          /\ tasks[t].status = "done"
          /\ resp.members_stats[i].tasks_done = 1

\* The user's tasks with status done.
DoneOf(u) == {t \in DOMAIN tasks : tasks[t].assignee_id = u /\ tasks[t].status = "done"}

EstTotal(u) == Sum([t \in DoneOf(u) |-> tasks[t].estimate_pomos], DoneOf(u))

ActTotal(u) == Sum([t \in DoneOf(u) |-> tasks[t].actual_pomos], DoneOf(u))

\* C15: a user's estimate accuracy is taken over the user's done tasks only:
\* act_total / est_total * 100 rounded to one decimal when est_total > 0, and
\* 0 when est_total = 0, also for a user with no done task.  The figure is in
\* tenths of a percent, so rounding means it is within half a tenth.
C15_EstimateAccuracy ==
    TeamReport =>
        \A i \in 1..Len(resp.members_stats) :
            LET u == resp.members_stats[i].user
                acc == resp.members_stats[i].estimate_accuracy
            IN  IF EstTotal(u) > 0
                THEN /\ 2 * (acc * EstTotal(u) - 1000 * ActTotal(u)) <= EstTotal(u)
                     /\ 2 * (1000 * ActTotal(u) - acc * EstTotal(u)) <= EstTotal(u)
                ELSE acc = 0

\* Estimates 4 and 6 with actuals 5 and 5, both done: the report says 100.0.
C15_Witness ==
    /\ TeamReport
    /\ \E i \in 1..Len(resp.members_stats), a, b \in DOMAIN tasks :
          LET u == resp.members_stats[i].user
          IN  /\ DoneOf(u) = {a, b}
              /\ tasks[a].estimate_pomos = 4
              /\ tasks[b].estimate_pomos = 6
              /\ tasks[a].actual_pomos = 5
              /\ tasks[b].actual_pomos = 5
              /\ resp.members_stats[i].estimate_accuracy = 1000

\* Estimate 3, actual 5, done beside a task that is not done: 166.7; and the
\* member, who has no done task, gets 0.
C15_WitnessRounded ==
    /\ TeamReport
    /\ \E i, j \in 1..Len(resp.members_stats), a, b \in DOMAIN tasks :
          LET u == resp.members_stats[i].user
          IN  /\ DoneOf(u) = {a}
              /\ tasks[a].estimate_pomos = 3
              /\ tasks[a].actual_pomos = 5
              /\ tasks[b].assignee_id = u
              /\ tasks[b].status = "todo"
              /\ tasks[b].actual_pomos = 5
              /\ resp.members_stats[i].estimate_accuracy = 1667
              /\ DoneOf(resp.members_stats[j].user) = {}
              /\ resp.members_stats[j].estimate_accuracy = 0

\* C11: a session's project_id is the project of its task at the instant of
\* StartSession and never changes afterwards, whatever happens to the task
\* (moved to another project, deleted) and when the session is finished.
C11_ProjectIsCopied ==
    [][/\ \A id \in 1..Len(sessions) :
             sessions'[id].project_id = sessions[id].project_id
       /\ (resp'.op = "start_session" /\ resp'.code = "ok") =>
             LET s == sessions'[resp'.id]
             IN  s.project_id =
                     IF s.task_id # None /\ Val(s.task_id) \in DOMAIN tasks
                     THEN tasks[Val(s.task_id)].project_id
                     ELSE None]_vars

\* A finished session still carries project 1 while its task has been moved
\* to project 2.
C11_Witness ==
    \E id \in 1..Len(sessions) :
        LET s == sessions[id]
        IN  /\ Closed(s)
            /\ s.project_id = Some(1)
            /\ Val(s.task_id) \in DOMAIN tasks
            /\ tasks[Val(s.task_id)].project_id = Some(2)

\* A session still carries project 1 after its task has been deleted.
C11_WitnessDeleted ==
    /\ resp.op = "delete_task"
    /\ resp.code = "redirect"
    /\ \E id \in 1..Len(sessions) :
          /\ sessions[id].project_id = Some(1)
          /\ sessions[id].task_id = Some(resp.id)

\* A session still carries project 1 after project 1 was deleted and its
\* task detached from it.
C11_WitnessDetached ==
    /\ resp.op = "delete_project"
    /\ resp.code = "redirect"
    /\ resp.id = 1
    /\ \E id \in 1..Len(sessions) :
          /\ sessions[id].project_id = Some(1)
          /\ Val(sessions[id].task_id) \in DOMAIN tasks
          /\ tasks[Val(sessions[id].task_id)].project_id = None

\* C20: an Open session stays Open until a FinishSession by its owner
\* succeeds on it: no other operation sets its end_time.
C20_OnlyFinishCloses ==
    [][\A id \in 1..Len(sessions) :
          (~Closed(sessions[id]) /\ Closed(sessions'[id])) =>
              /\ resp'.op = "finish_session"
              /\ resp'.code = "ok"
              /\ resp'.id = id
              /\ resp'.caller = sessions[id].user_id]_vars

\* A session is still Open when the team report is read a minute later,
\* beside a task that was marked done and restored.
C20_Witness ==
    /\ TeamReport
    /\ \E id \in 1..Len(sessions) : ~Closed(sessions[id])
    /\ \E t \in DOMAIN tasks : tasks[t].status = "todo" /\ tasks[t].actual_pomos = 1

\* The owner's finish has closed the session.
C20_WitnessClosed ==
    /\ FinishedOk
    /\ Closed(sessions[resp.id])
    /\ resp.caller = sessions[resp.id].user_id
    /\ Len(users) = 2

\* C18: StartSession with a malformed planned_minutes (absent, empty or not
\* a number) is not rejected: the session is created with planned_minutes 25.
C18_MalformedPlanned ==
    [][\A me \in Users, pf \in Malformed :
          (resp'.op = "start_session" /\ StartSession(me, Digit(1), pf, FormStart)) =>
              /\ resp'.code = "ok"
              /\ Len(sessions') = Len(sessions) + 1
              /\ sessions'[Len(sessions')].planned_minutes = 25]_vars

\* C19: StartSession stores a planned_minutes of 0 or below as given, and for
\* such a session with a linked task every successful FinishSession with
\* completed=true adds 1 to the task's actual_pomos, whatever time elapsed.
C19_NotPositivePlanned ==
    [][/\ \A me \in Users, pf \in NotPositive :
             (resp'.op = "start_session" /\ StartSession(me, Digit(1), pf, FormStart)) =>
                 /\ resp'.code = "ok"
                 /\ Len(sessions') = Len(sessions) + 1
                 /\ sessions'[Len(sessions')].planned_minutes
                       = IF pf = Some(<<"0">>) THEN 0 ELSE 0 - 1
       /\ (resp'.op = "finish_session" /\ resp'.code = "ok") =>
             LET s == sessions'[resp'.id]
             IN  (/\ s.planned_minutes <= 0
                  /\ s.task_id # None
                  /\ Val(s.task_id) # 0
                  /\ s.was_completed) =>
                     /\ Val(s.task_id) \in DOMAIN tasks
                     /\ tasks'[Val(s.task_id)].actual_pomos
                           = tasks[Val(s.task_id)].actual_pomos + 1]_vars

\* A session planned at -1 was finished before its start instant (0 minutes)
\* and its task was credited.
C19_Witness ==
    /\ FinishedOk
    /\ LET s == sessions[resp.id]
       IN  /\ s.planned_minutes = 0 - 1
           /\ Val(s.end_time) < s.start_time
           /\ s.actual_minutes = 0
           /\ tasks[Val(s.task_id)].actual_pomos = 1

\* A session planned at 0 was finished at its start instant and its task was
\* credited.
C19_WitnessZero ==
    /\ FinishedOk
    /\ LET s == sessions[resp.id]
       IN  /\ s.planned_minutes = 0
           /\ Val(s.end_time) = s.start_time
           /\ tasks[Val(s.task_id)].actual_pomos = 1

\* C21: every successful mark-done sets the task's status to done and adds
\* exactly 1 to its actual_pomos, also on a task that is already done or was
\* restored; only the assignee or a leader may do it, anyone else gets
\* Forbidden and the task stays as it was.
C21_MarkDone ==
    [][\A me \in Users, id \in DOMAIN tasks :
          (resp'.op = "mark_done" /\ MarkDone(me, id)) =>
              IF users[me].role = "leader" \/ tasks[id].assignee_id = me
              THEN /\ resp'.code = "redirect"
                   /\ DOMAIN tasks' = DOMAIN tasks
                   /\ tasks'[id].status = "done"
                   /\ tasks'[id].actual_pomos = tasks[id].actual_pomos + 1
                   /\ tasks'[id].assignee_id = tasks[id].assignee_id
                   /\ tasks'[id].estimate_pomos = tasks[id].estimate_pomos
                   /\ tasks'[id].project_id = tasks[id].project_id
                   /\ \A t \in DOMAIN tasks \ {id} : tasks'[t] = tasks[t]
              ELSE /\ resp'.code = "forbidden"
                   /\ tasks' = tasks]_vars

\* A task that was already done has been marked done again: 2 credits.
C21_Witness ==
    /\ resp.op = "mark_done"
    /\ resp.code = "redirect"
    /\ tasks[resp.id].status = "done"
    /\ tasks[resp.id].actual_pomos = 2

\* A member has been refused on the leader's task.
C21_WitnessForbidden ==
    /\ resp.op = "mark_done"
    /\ resp.code = "forbidden"
    /\ users[resp.caller].role = "member"
    /\ tasks[resp.id].assignee_id # resp.caller

\* The leader has marked a member's task done.
C21_WitnessLeader ==
    /\ resp.op = "mark_done"
    /\ resp.code = "redirect"
    /\ users[resp.caller].role = "leader"
    /\ tasks[resp.id].assignee_id # resp.caller

\* C22: a report request (team report or personal dashboard) changes no
\* FocusSession and no Task, and a report that directly follows the same
\* report by the same caller over the same window returns the same figures.
C22_ReportIsPureView ==
    [][resp'.op \in {"team_dashboard", "dashboard"} =>
          /\ sessions' = sessions
          /\ tasks' = tasks
          /\ (/\ resp.op = resp'.op
              /\ resp.caller = resp'.caller
              /\ resp.code = "ok"
              /\ resp'.code = "ok"
              /\ resp.start = resp'.start) => resp' = resp]_vars

\* A team report with a task counted and minutes counted has been served.
C22_Witness ==
    /\ TeamReport
    /\ \E i \in DOMAIN resp.members_stats :
          /\ resp.members_stats[i].tasks_done > 0
          /\ resp.members_stats[i].focus_minutes > 0

\* A dashboard with minutes of today has been served while a task exists.
C22_WitnessOwn ==
    /\ OwnReport
    /\ resp.mins_today > 0
    /\ DOMAIN tasks # {}

\* C23: after a successful FinishSession the session's was_completed is the
\* caller's completed flag, and it is true when the caller sends no flag.
C23_WasCompleted ==
    [][\A id \in 1..Len(sessions), cf \in Flags, now \in FlagFinishInstants :
          (/\ resp'.op = "finish_session"
           /\ resp'.code = "ok"
           /\ resp'.id = id
           /\ sessions'[id].end_time = Some(now)
           /\ FinishSession(sessions[id].user_id, Digit(id), cf, now)) =>
              /\ cf = None => sessions'[id].was_completed
              /\ cf = Some(TrueText) => sessions'[id].was_completed
              /\ cf = Some(FalseText) => ~sessions'[id].was_completed]_vars

\* A session has been finished as not completed.
C23_Witness ==
    /\ FinishedOk
    /\ ~sessions[resp.id].was_completed

\* A session has been finished as completed.
C23_WitnessTrue ==
    /\ FinishedOk
    /\ sessions[resp.id].was_completed

ClosedIn(ids) == {id \in ids : Closed(sessions[id])}

\* C24: in every reachable state a session whose end_time is null has
\* actual_minutes 0 and was_completed false, so the figures of every report
\* are those of the closed sessions of its window alone.
C24_OpenCountsNothing ==
    /\ \A id \in 1..Len(sessions) :
          ~Closed(sessions[id]) =>
              sessions[id].actual_minutes = 0 /\ ~sessions[id].was_completed
    /\ TeamReport =>
          \A i \in 1..Len(resp.members_stats) :
              LET ids == InWindow(resp.members_stats[i].user, resp.start)
              IN  /\ resp.members_stats[i].focus_minutes = Minutes(ClosedIn(ids))
                  /\ resp.members_stats[i].pomos = Completed(ClosedIn(ids))
    /\ OwnReport =>
          LET ids == InWindow(resp.caller, resp.start)
          IN  /\ resp.mins_today = Minutes(ClosedIn(ids))
              /\ resp.pomos_today = Completed(ClosedIn(ids))

\* A team report served while a member has an Open session in the window next
\* to a closed one that counts.
C24_Witness ==
    /\ TeamReport
    /\ \E i \in 1..Len(resp.members_stats) :
          LET ids == InWindow(resp.members_stats[i].user, resp.start)
          IN  /\ ids \ ClosedIn(ids) # {}
              /\ resp.members_stats[i].focus_minutes > 0
              /\ resp.members_stats[i].pomos > 0

\* A dashboard served to a user whose only session of today is Open.
C24_WitnessOwn ==
    /\ OwnReport
    /\ InWindow(resp.caller, resp.start) # {}
    /\ ClosedIn(InWindow(resp.caller, resp.start)) = {}

\* C25: when the owner finishes, with completed=false, an Open session that
\* was started with no task, no task's actual_pomos changes, the owner's
\* focus_minutes for every window that contains the session's start_time grow
\* by the session's actual_minutes, and the owner's pomodoro_count does not
\* grow.
C25_AbandonedWithoutTask ==
    [][\A id \in 1..Len(sessions), now \in FinishInstants :
          (/\ resp'.op = "finish_session"
           /\ resp'.code = "ok"
           /\ resp'.id = id
           /\ sessions[id].task_id = None
           /\ ~Closed(sessions[id])
           /\ FinishSession(sessions[id].user_id, Digit(id), NotTrue, now)) =>
              /\ tasks' = tasks
              /\ \A start \in {w \in StartInstants : w <= sessions[id].start_time} :
                    LET before == MemberStats(sessions[id].user_id, start)
                        after == MemberStats(sessions[id].user_id, start)'
                    IN  /\ after.focus_minutes
                              = before.focus_minutes + sessions'[id].actual_minutes
                        /\ after.pomos = before.pomos]_vars

\* A session without a task was abandoned after 24 minutes while a task exists.
C25_Witness ==
    /\ FinishedOk
    /\ sessions[resp.id].task_id = None
    /\ ~sessions[resp.id].was_completed
    /\ sessions[resp.id].actual_minutes = 24
    /\ DOMAIN tasks # {}
    /\ MemberStats(resp.caller, 0).focus_minutes = 24
    /\ MemberStats(resp.caller, 0).pomos = 0

\* What Python's datetime gives for lines 177-184 at each instant and offset:
\* the local date and its weekday, and the three window starts.
Calendar ==
    { [now |-> 345599, offset |-> 0, today |-> 3, weekday |-> 6,
      day |-> 259200, month |-> 0, week |-> 0 - 259200],
      [now |-> 345599, offset |-> 25200, today |-> 4, weekday |-> 0,
      day |-> 345600, month |-> 0, week |-> 345600],
      [now |-> 345599, offset |-> 0 - 18000, today |-> 3, weekday |-> 6,
      day |-> 259200, month |-> 0, week |-> 0 - 259200],
      [now |-> 345600, offset |-> 0, today |-> 4, weekday |-> 0,
      day |-> 345600, month |-> 0, week |-> 345600],
      [now |-> 345600, offset |-> 25200, today |-> 4, weekday |-> 0,
      day |-> 345600, month |-> 0, week |-> 345600],
      [now |-> 345600, offset |-> 0 - 18000, today |-> 3, weekday |-> 6,
      day |-> 259200, month |-> 0, week |-> 0 - 259200],
      [now |-> 417600, offset |-> 0, today |-> 4, weekday |-> 0,
      day |-> 345600, month |-> 0, week |-> 345600],
      [now |-> 417600, offset |-> 25200, today |-> 5, weekday |-> 1,
      day |-> 432000, month |-> 0, week |-> 345600],
      [now |-> 417600, offset |-> 0 - 18000, today |-> 4, weekday |-> 0,
      day |-> 345600, month |-> 0, week |-> 345600],
      [now |-> 2664000, offset |-> 0, today |-> 30, weekday |-> 5,
      day |-> 2592000, month |-> 0, week |-> 2160000],
      [now |-> 2664000, offset |-> 25200, today |-> 31, weekday |-> 6,
      day |-> 2678400, month |-> 0, week |-> 2160000],
      [now |-> 2664000, offset |-> 0 - 18000, today |-> 30, weekday |-> 5,
      day |-> 2592000, month |-> 0, week |-> 2160000],
      [now |-> 5097600, offset |-> 0, today |-> 59, weekday |-> 6,
      day |-> 5097600, month |-> 5097600, week |-> 4579200],
      [now |-> 5097600, offset |-> 25200, today |-> 59, weekday |-> 6,
      day |-> 5097600, month |-> 5097600, week |-> 4579200],
      [now |-> 5097600, offset |-> 0 - 18000, today |-> 58, weekday |-> 5,
      day |-> 5011200, month |-> 5097600, week |-> 4579200],
      [now |-> 68212800, offset |-> 0, today |-> 789, weekday |-> 1,
      day |-> 68169600, month |-> 65750400, week |-> 68083200],
      [now |-> 68212800, offset |-> 25200, today |-> 789, weekday |-> 1,
      day |-> 68169600, month |-> 65750400, week |-> 68083200],
      [now |-> 68212800, offset |-> 0 - 18000, today |-> 789, weekday |-> 1,
      day |-> 68169600, month |-> 65750400, week |-> 68083200],
      [now |-> 68266800, offset |-> 0, today |-> 790, weekday |-> 2,
      day |-> 68256000, month |-> 68256000, week |-> 68083200],
      [now |-> 68266800, offset |-> 25200, today |-> 790, weekday |-> 2,
      day |-> 68256000, month |-> 68256000, week |-> 68083200],
      [now |-> 68266800, offset |-> 0 - 18000, today |-> 789, weekday |-> 1,
      day |-> 68169600, month |-> 68256000, week |-> 68083200],
      [now |-> 1793826000, offset |-> 0, today |-> 20761, weekday |-> 2,
      day |-> 1793750400, month |-> 1793491200, week |-> 1793577600],
      [now |-> 1793826000, offset |-> 25200, today |-> 20762, weekday |-> 3,
      day |-> 1793836800, month |-> 1793491200, week |-> 1793577600],
      [now |-> 1793826000, offset |-> 0 - 18000, today |-> 20761, weekday |-> 2,
      day |-> 1793750400, month |-> 1793491200, week |-> 1793577600] }

\* C26: range=day starts at midnight of the current date, range=month at
\* midnight of day 1 of the current month, range=week and any unrecognised
\* range at midnight of the most recent Monday, which is today when today is
\* a Monday; in every case the window start is not later than the request's
\* now.
C26_WindowStart ==
    [][\A c \in Calendar, rng \in WindowRanges, me \in Users :
          (/\ resp'.op = "team_dashboard"
           /\ resp'.code = "ok"
           /\ resp'.caller = me
           /\ TeamDashboard(me, rng, c.now, LocalDate(c.now, c.offset))) =>
              /\ LocalDate(c.now, c.offset) = c.today
              /\ rng = Some(<<"d", "a", "y">>) => resp'.start = c.day
              /\ rng = Some(<<"m", "o", "n", "t", "h">>) => resp'.start = c.month
              /\ rng \notin {Some(<<"d", "a", "y">>), Some(<<"m", "o", "n", "t", "h">>)} =>
                    /\ resp'.start = c.week
                    /\ c.weekday = 0 => resp'.start = c.today * SecondsPerDay
              /\ resp'.start <= c.now]_vars

\* C27: FinishSession called by the owner on an Open session either succeeds
\* and closes it, or fails leaving the session Open and every task unchanged;
\* when the session's linked task does not exist (deleted after the start or
\* never there) the call still succeeds and closes the session without
\* touching any task.
C27_FinishWithoutTaskRow ==
    [][\A me \in Users, id \in 1..Len(sessions) :
          (/\ resp'.op = "finish_session"
           /\ resp'.caller = me
           /\ sessions[id].user_id = me
           /\ ~Closed(sessions[id])
           /\ FinishSession(me, Digit(id), None, 0)) =>
              /\ \/ resp'.code = "ok" /\ Closed(sessions'[id])
                 \/ resp'.code # "ok" /\ sessions' = sessions /\ tasks' = tasks
              /\ (/\ sessions[id].task_id # None
                  /\ Val(sessions[id].task_id) \notin DOMAIN tasks) =>
                     /\ resp'.code = "ok"
                     /\ Closed(sessions'[id])
                     /\ tasks' = tasks]_vars

\* C28: no request made by a user with role member changes the actual_pomos
\* of a task that is not assigned to that user.
C28_MemberCreditsOwnTasksOnly ==
    [][\A t \in DOMAIN tasks \cap DOMAIN tasks' :
          (/\ resp'.caller \in DOMAIN users
           /\ users[resp'.caller].role = "member"
           /\ tasks[t].assignee_id # resp'.caller) =>
              tasks'[t].actual_pomos = tasks[t].actual_pomos]_vars

\* C29: while a task exists its actual_pomos never decreases: every step
\* leaves it equal or one higher, and restoring a task leaves it equal.
C29_PomosNeverDecrease ==
    [][\A t \in DOMAIN tasks \cap DOMAIN tasks' :
          /\ tasks'[t].actual_pomos \in
                {tasks[t].actual_pomos, tasks[t].actual_pomos + 1}
          /\ resp'.op = "restore_task" =>
                tasks'[t].actual_pomos = tasks[t].actual_pomos]_vars

OpenOf(me) ==
    {id \in 1..Len(sessions) : sessions[id].user_id = me /\ ~Closed(sessions[id])}

\* C30: StartSession succeeds for a logged-in user in every state, also when
\* that user already has Open sessions, on the same task or not; it leaves
\* the sessions that exist as they are; and a successful finish of one Open
\* session closes that session only, leaves the others as they are and
\* credits the task by the heuristic applied to that session alone.
C30_StartWhileOpen ==
    /\ [](\A me \in Users :
             ENABLED (StartSession(me, Digit(1), None, FormStart) /\ resp'.code = "ok"))
    /\ [][/\ \A me \in Users, pf \in NotPositive \cup {None, Some(<<>>)} :
                (resp'.op = "start_session" /\ StartSession(me, Digit(1), pf, FormStart)) =>
                    /\ resp'.code = "ok"
                    /\ Len(sessions') = Len(sessions) + 1
                    /\ sessions'[Len(sessions')].user_id = me
                    /\ ~Closed(sessions'[Len(sessions')])
                    /\ \A id \in 1..Len(sessions) : sessions'[id] = sessions[id]
                    /\ tasks' = tasks
          /\ \A id \in 1..Len(sessions) :
                (/\ resp'.op = "finish_session"
                 /\ resp'.code = "ok"
                 /\ resp'.id = id
                 /\ ~Closed(sessions[id])) =>
                    /\ Closed(sessions'[id])
                    /\ Len(sessions') = Len(sessions)
                    /\ \A other \in (1..Len(sessions)) \ {id} :
                          sessions'[other] = sessions[other]
                    /\ IF Earned(sessions'[id])
                       THEN LET t == Val(sessions[id].task_id)
                            IN  tasks' = [tasks EXCEPT ![t].actual_pomos = @ + 1]
                       ELSE tasks' = tasks]_vars

\* A second session has been started on the same task while the first one of
\* the same user is still Open.
C30_Witness ==
    /\ resp.op = "start_session"
    /\ resp.code = "ok"
    /\ resp.id = 2
    /\ OpenOf(resp.caller) = {1, 2}
    /\ sessions[1].task_id = sessions[2].task_id

\* The first of two sessions on one task has been finished and credited while
\* the second one is still Open.
C30_WitnessFirst ==
    /\ FinishedOk
    /\ resp.id = 1
    /\ Len(sessions) = 2
    /\ OpenOf(resp.caller) = {2}
    /\ sessions[1].task_id = sessions[2].task_id
    /\ Val(sessions[1].task_id) \in DOMAIN tasks
    /\ tasks[Val(sessions[1].task_id)].actual_pomos = 1

\* Both sessions on one task have been finished and each was credited.
C30_WitnessBoth ==
    /\ FinishedOk
    /\ Len(sessions) = 2
    /\ OpenOf(resp.caller) = {}
    /\ sessions[1].user_id = sessions[2].user_id
    /\ sessions[1].task_id = sessions[2].task_id
    /\ Earned(sessions[1])
    /\ Earned(sessions[2])
    /\ Val(sessions[1].task_id) \in DOMAIN tasks
    /\ tasks[Val(sessions[1].task_id)].actual_pomos = 2

\* C31: the entries of the team report are ordered by focus_minutes in
\* non-increasing order: of every two adjacent entries the earlier one has
\* focus_minutes greater than or equal to the later one.
C31_OrderedByFocus ==
    TeamReport =>
        \A i \in 1..(Len(resp.members_stats) - 1) :
            resp.members_stats[i].focus_minutes
                >= resp.members_stats[i + 1].focus_minutes

\* A team report in which the user registered second comes first, with more
\* minutes than the leader.
C31_Witness ==
    /\ TeamReport
    /\ Len(resp.members_stats) = 2
    /\ resp.members_stats[1].user = 2
    /\ resp.members_stats[1].focus_minutes > resp.members_stats[2].focus_minutes

\* A team report of two members with equal minutes above 0, in the order of
\* the query.
C31_WitnessTie ==
    /\ TeamReport
    /\ Len(resp.members_stats) = 2
    /\ resp.members_stats[1].user = 1
    /\ resp.members_stats[1].focus_minutes > 0
    /\ resp.members_stats[1].focus_minutes = resp.members_stats[2].focus_minutes

====
